---------------------------- MODULE Spec2Model ----------------------------
(***************************************************************************)
(* Model of src/static/script.js: the activity board client.               *)
(* console.error (lines 11 and 74) changes nothing the page shows and is    *)
(* left out.                                                               *)
(*                                                                         *)
(* Strings that the code inspects character by character (the email, the   *)
(* activity name, the request URL) are sequences of one-character strings. *)
(* Texts that the code only concatenates (alert messages, the server's     *)
(* message and detail) are sequences of tokens.                            *)
(*                                                                         *)
(* JavaScript runs every handler to completion: one action is the code     *)
(* that runs between two suspension points (await) of an async function.   *)
(***************************************************************************)
EXTENDS Integers, Sequences, FiniteSets, TLC

VARIABLES
    emailInput,     \* emailInput.value (line 2)
    container,      \* activitiesContainer: innerHTML text and appended cards
    calls,          \* every invocation of loadActivities / signUp, in call order
    requests,       \* every fetch() issued, in issue order
    alerts,         \* every alert() shown, in order
    uncaught,       \* ids of calls whose promise rejected (exception escaped)
    completed,      \* ids of loadActivities calls in the order they finished
    lastDisplay     \* argument and outcome of the last displayActivities call

vars == <<emailInput, container, calls, requests, alerts, uncaught, completed, lastDisplay>>

-----------------------------------------------------------------------------
(* Bounds *)

MaxCalls == 3       \* invocations (loadActivities + signUp) in one behaviour
MaxParticipants == 2 \* length of a participants list in the render inputs

-----------------------------------------------------------------------------
(* JavaScript values *)

\* An optional value is a sequence of length 0 or 1
Absent == <<>>                 \* a property that the object does not have
Some(v) == <<v>>

Present(o) == o # <<>>

Value(o) == o[1]

\* String(v) inside a template literal or alert(): a text, or "undefined"
Str(o) == IF Present(o) THEN Value(o) ELSE <<"undefined">>

\* String.prototype.trim over the alphabet of the model
RECURSIVE TrimLeft(_)
TrimLeft(s) == IF s # <<>> /\ Head(s) = " " THEN TrimLeft(Tail(s)) ELSE s

RECURSIVE TrimRight(_)
TrimRight(s) ==
    IF s # <<>> /\ s[Len(s)] = " " THEN TrimRight(SubSeq(s, 1, Len(s) - 1)) ELSE s

Trim(s) == TrimRight(TrimLeft(s))

\* String.prototype.includes for a one-character needle
Includes(s, ch) == \E i \in 1..Len(s) : s[i] = ch

\* Characters that encodeURIComponent leaves alone (those of the model's alphabet)
Unreserved == {"a", "b", "x", "C", "A", "V"}

EscapeAll(ch) ==
    CASE ch = " " -> <<"%", "2", "0">>
      [] ch = "@" -> <<"%", "4", "0">>
      [] ch = "/" -> <<"%", "2", "F">>
      [] ch = "&" -> <<"%", "2", "6">>
      [] ch = "%" -> <<"%", "2", "5">>
      [] OTHER    -> <<ch>>

\* Faulty variant: nothing is escaped
EscapeNone(ch) == <<ch>>

\* encodeURIComponent of one character
Escape(ch) == IF ch \in Unreserved THEN <<ch>> ELSE EscapeAll(ch)

RECURSIVE encodeURIComponent(_)
encodeURIComponent(s) ==
    IF s = <<>> THEN <<>> ELSE Escape(Head(s)) \o encodeURIComponent(Tail(s))

\* The template literal of line 61
SignupUrl(activityName, email) ==
    <<"/", "a", "c", "t", "i", "v", "i", "t", "i", "e", "s", "/">>
    \o encodeURIComponent(activityName)
    \o <<"/", "s", "i", "g", "n", "u", "p", "?", "e", "m", "a", "i", "l", "=">>
    \o encodeURIComponent(email)

ActivitiesUrl == <<"/", "a", "c", "t", "i", "v", "i", "t", "i", "e", "s">>


-----------------------------------------------------------------------------
(* displayActivities (lines 17-44) *)

InitialContainer == [html |-> "initial", cards |-> <<>>]

\* line 12
ErrorContainer == [html |-> "error", cards |-> <<>>]

\* details.participants && details.participants.length > 0 ? <ul>..</ul> : <p>..</p>
\* (lines 24-28)
ParticipantsList(details) ==
    IF Present(details.participants) /\ Len(Value(details.participants)) > 0
    THEN [tag |-> "ul", items |-> Value(details.participants)]
    ELSE [tag |-> "p", items |-> <<>>]

\* a || b takes a only when a is truthy: 0 is not
Falsy(o) == ~Present(o) \/ Value(o) = 0

\* details.current_participants || details.participants.length (line 34)
CapacityCount(details) ==
    IF ~Falsy(details.current_participants)
    THEN Value(details.current_participants)
    ELSE Len(Value(details.participants))

\* line 34 throws a TypeError when it reads .length of undefined
CardThrows(details) ==
    /\ Falsy(details.current_participants)
    /\ ~Present(details.participants)

\* The card of one entry (lines 21-40); src is the call that renders it
Card(name, details, src) ==
    [ name         |-> name,
      description  |-> details.description,
      schedule     |-> details.schedule,
      count        |-> CapacityCount(details),
      max          |-> details.max_participants,
      participants |-> ParticipantsList(details),
      button       |-> name,
      src          |-> src ]

\* The for loop of lines 20-43: one card appended per entry, until one throws
RECURSIVE AppendCards(_, _, _)
AppendCards(cont, entries, src) ==
    IF entries = <<>> THEN [container |-> cont, threw |-> FALSE]
    ELSE IF CardThrows(Head(entries).details)
         THEN [container |-> cont, threw |-> TRUE]
         ELSE AppendCards(
                  [cont EXCEPT !.cards = Append(@, Card(Head(entries).name,
                                                        Head(entries).details, src))],
                  Tail(entries), src)

\* Faulty variant: line 18 left out
ClearSkipped(cont) == cont

\* line 18: innerHTML = '' removes the text and every child
Clear(cont) == [html |-> "", cards |-> <<>>]

\* displayActivities(activities): activities is the parsed body, its entries in
\* Object.entries order; Object.entries(null) throws after line 18 has run
displayActivities(cont, activities, src) ==
    IF activities.kind = "null"
    THEN [container |-> Clear(cont), threw |-> TRUE]
    ELSE AppendCards(Clear(cont), activities.entries, src)

-----------------------------------------------------------------------------
(* Inputs: what the user types and what the server answers *)

\* Values of the email field
Emails ==
    { <<>>, <<" ">>, <<"a", "b">>, <<" ", "a", "&", "@", "x", " ">> }

\* Activity names a Sign Up button is rendered for
ActivityNames == { <<"C", " ", "C">>, <<"A", "/", "V">> }

NoBody == [kind |-> "none", entries |-> <<>>, message |-> Absent, detail |-> Absent]

NotJsonBody == [NoBody EXCEPT !.kind = "not-json"]

NullBody == [NoBody EXCEPT !.kind = "null"]

ObjectBody(entries, message, detail) ==
    [kind |-> "object", entries |-> entries, message |-> message, detail |-> detail]

\* An Activity record of the server (spec section 3, fields read on lines 24-34)
Details(participants, current) ==
    [ description          |-> "description",
      schedule             |-> "schedule",
      max_participants     |-> MaxParticipants,
      participants         |-> participants,
      current_participants |-> current ]

Entry(name, details) == [name |-> name, details |-> details]

Chess == <<"C", " ", "C">>
AV == <<"A", "/", "V">>
Alice == <<"a", "@", "x">>

\* Bodies the server may send for GET /activities
LoadBodies ==
    { NotJsonBody,
      NullBody,
      ObjectBody(<<Entry(Chess, Details(Some(<<>>), Some(0))),
                   Entry(AV, Details(Some(<<Alice>>), Some(1)))>>, Absent, Absent),
      ObjectBody(<<Entry(Chess, Details(Some(<<Alice>>), Absent)),
                   Entry(AV, Details(Absent, Absent))>>, Absent, Absent) }

\* Bodies the server may send for the sign-up POST
SignUpBodies ==
    { NotJsonBody,
      NullBody,
      ObjectBody(<<>>, Some(<<"Signed up">>), Absent),
      ObjectBody(<<>>, Absent, Some(<<"Already signed up">>)) }

-----------------------------------------------------------------------------
(* State *)

NoResponse == [settled |-> FALSE, ok |-> FALSE, body |-> NoBody]

\* One invocation of an async function; trigger is the signUp call that made it
\* (0 for the call of line 80); typed is the email field as signUp read it
Call(fn, pc, activityName, typed, email, trigger) ==
    [ fn |-> fn, pc |-> pc, activityName |-> activityName, typed |-> typed,
      email |-> email, trigger |-> trigger, response |-> NoResponse ]

\* A fetch(); seen is the number of alerts the user had dismissed when it was issued
Get(by, seen) == [by |-> by, method |-> "GET", url |-> ActivitiesUrl, seen |-> seen]

Post(by, activityName, email, seen) ==
    [by |-> by, method |-> "POST", url |-> SignupUrl(activityName, email), seen |-> seen]

NoDisplay == [called |-> FALSE, activities |-> NoBody, threw |-> FALSE]

\* Line 80: the script has run, the first loadActivities is suspended at line 7
Init ==
    /\ emailInput = <<>>
    /\ container = InitialContainer
    /\ calls = <<Call("loadActivities", "fetch", <<>>, <<>>, <<>>, 0)>>
    /\ requests = <<Get(1, 0)>>
    /\ alerts = <<>>
    /\ uncaught = {}
    /\ completed = <<>>
    /\ lastDisplay = NoDisplay

Pending(fn) == {i \in 1..Len(calls) : calls[i].fn = fn /\ calls[i].pc # "done"}

\* Calls still to come from the signUp calls in flight (line 68)
Reserved == Cardinality(Pending("signUp"))

\* The user edits the email field
TypeEmail(e) ==
    /\ e # emailInput
    /\ emailInput' = e
    /\ UNCHANGED <<container, calls, requests, alerts, uncaught, completed, lastDisplay>>

-----------------------------------------------------------------------------
(* signUp (lines 47-77) *)

EmptyEmailText == <<"Please enter your email address">>
InvalidEmailText == <<"Please enter a valid email address">>
SignUpFailedText == <<"Error signing up. Please try again later.">>

\* Faulty variant: the guard of line 55 left out
ValidateEmptyOnly(email) == IF email = <<>> THEN "empty" ELSE "ok"

\* The two guards of lines 50-58, in order
Validate(email) ==
    IF email = <<>> THEN "empty"
    ELSE IF ~Includes(email, "@") THEN "invalid"
    ELSE "ok"

\* What the handler does, in program order, once the body of the response is in
\* (lines 65-76). json() rejects on a body that is not JSON, and reading .message
\* or .detail of null throws: both land in the catch of line 73.
Alert(text) == [op |-> "alert", text |-> text]
Reload == [op |-> "loadActivities", text |-> <<>>]

\* Faulty variant: response.ok never read
SignUpSettleIgnoreStatus(ok, body) ==
    IF body.kind # "object" THEN <<Alert(SignUpFailedText)>>
    ELSE <<Alert(Str(body.message)), Reload>>

\* Faulty variant: line 68 moved after the if/else
SignUpSettleAlwaysReload(ok, body) ==
    IF body.kind # "object" THEN <<Alert(SignUpFailedText)>>
    ELSE IF ok THEN <<Alert(Str(body.message)), Reload>>
    ELSE <<Alert(<<"Error: ">> \o Str(body.detail)), Reload>>

\* Faulty variant: line 68 left out
SignUpSettleNoReload(ok, body) ==
    IF body.kind # "object" THEN <<Alert(SignUpFailedText)>>
    ELSE IF ok THEN <<Alert(Str(body.message))>>
    ELSE <<Alert(<<"Error: ">> \o Str(body.detail))>>

SignUpSettle(ok, body) ==
    IF body.kind # "object" THEN <<Alert(SignUpFailedText)>>
    ELSE IF ok THEN <<Alert(Str(body.message)), Reload>>
    ELSE <<Alert(<<"Error: ">> \o Str(body.detail))>>

\* Runs the effects of call i in order on [calls, requests, alerts]
RECURSIVE Run(_, _, _)
Run(st, effects, i) ==
    IF effects = <<>> THEN st
    ELSE LET e == Head(effects)
             next ==
                 IF e.op = "alert"
                 THEN [st EXCEPT !.alerts = Append(@, [by |-> i, text |-> e.text])]
                 ELSE \* loadActivities() runs up to its await on line 7
                      [st EXCEPT
                          !.calls = Append(@, Call("loadActivities", "fetch", <<>>, <<>>, <<>>, i)),
                          !.requests = Append(@, Get(Len(st.calls) + 1, Len(st.alerts)))]
         IN Run(next, Tail(effects), i)

\* signUp(activityName) up to its first await (lines 47-63)
SignUp(activityName) ==
    LET email == Trim(emailInput)
        id == Len(calls) + 1
        verdict == Validate(email)
    IN /\ Len(calls) + Reserved + (IF verdict = "ok" THEN 2 ELSE 1) <= MaxCalls
       /\ IF verdict = "ok"
          THEN /\ calls' = Append(calls, Call("signUp", "fetch", activityName, emailInput, email, 0))
               /\ requests' = Append(requests, Post(id, activityName, email, Len(alerts)))
               /\ UNCHANGED alerts
          ELSE /\ calls' = Append(calls, Call("signUp", "done", activityName, emailInput, email, 0))
               /\ alerts' = Append(alerts,
                      [by |-> id,
                       text |-> IF verdict = "empty" THEN EmptyEmailText
                                ELSE InvalidEmailText])
               /\ UNCHANGED requests
       /\ UNCHANGED <<emailInput, container, uncaught, completed, lastDisplay>>

\* fetch() of line 61 rejects: the catch of lines 73-75
SignUpFetchRejected(i) ==
    /\ i \in Pending("signUp") /\ calls[i].pc = "fetch"
    /\ calls' = [calls EXCEPT ![i].pc = "done"]
    /\ alerts' = Append(alerts, [by |-> i, text |-> SignUpFailedText])
    /\ UNCHANGED <<emailInput, container, requests, uncaught, completed, lastDisplay>>

\* fetch() of line 61 resolves: line 65 reads response.ok, then line 66 or 70
\* suspends on response.json()
SignUpFetchResolved(i, ok) ==
    /\ i \in Pending("signUp") /\ calls[i].pc = "fetch"
    /\ calls' = [calls EXCEPT ![i].pc = "json",
                              ![i].response = [settled |-> TRUE, ok |-> ok, body |-> NoBody]]
    /\ UNCHANGED <<emailInput, container, requests, alerts, uncaught, completed, lastDisplay>>

\* response.json() settles: lines 66-76
SignUpJsonSettled(i, body) ==
    /\ i \in Pending("signUp") /\ calls[i].pc = "json"
    /\ LET st == Run([calls |-> [calls EXCEPT ![i].pc = "done", ![i].response.body = body],
                      requests |-> requests, alerts |-> alerts],
                     SignUpSettle(calls[i].response.ok, body), i)
       IN /\ calls' = st.calls
          /\ requests' = st.requests
          /\ alerts' = st.alerts
    /\ UNCHANGED <<emailInput, container, uncaught, completed, lastDisplay>>

-----------------------------------------------------------------------------
(* loadActivities (lines 5-14) *)

\* Faulty variant: no try/catch around lines 7-9
LoadNoCatch(r) == [container |-> r.container, rejected |-> r.threw]

\* The try/catch of lines 6-13 around the awaits and displayActivities
LoadCatch(r) ==
    IF r.threw THEN [container |-> ErrorContainer, rejected |-> FALSE]
    ELSE [container |-> r.container, rejected |-> FALSE]

LoadFinish(i, r) ==
    /\ container' = LoadCatch(r).container
    /\ uncaught' = IF LoadCatch(r).rejected THEN uncaught \cup {i} ELSE uncaught
    /\ completed' = Append(completed, i)

\* fetch() of line 7 rejects
LoadFetchRejected(i) ==
    /\ i \in Pending("loadActivities") /\ calls[i].pc = "fetch"
    /\ calls' = [calls EXCEPT ![i].pc = "done"]
    /\ LoadFinish(i, [container |-> container, threw |-> TRUE])
    /\ UNCHANGED <<emailInput, requests, alerts, lastDisplay>>

\* fetch() of line 7 resolves, with any status: line 8 suspends on response.json()
LoadFetchResolved(i, ok) ==
    /\ i \in Pending("loadActivities") /\ calls[i].pc = "fetch"
    /\ calls' = [calls EXCEPT ![i].pc = "json",
                              ![i].response = [settled |-> TRUE, ok |-> ok, body |-> NoBody]]
    /\ UNCHANGED <<emailInput, container, requests, alerts, uncaught, completed, lastDisplay>>

\* response.json() of line 8 settles: line 9, or the catch
LoadJsonSettled(i, body) ==
    /\ i \in Pending("loadActivities") /\ calls[i].pc = "json"
    /\ calls' = [calls EXCEPT ![i].pc = "done", ![i].response.body = body]
    /\ IF body.kind = "not-json"
       THEN /\ LoadFinish(i, [container |-> container, threw |-> TRUE])
            /\ UNCHANGED lastDisplay
       ELSE LET r == displayActivities(container, body, i)
            IN /\ LoadFinish(i, r)
               /\ lastDisplay' = [called |-> TRUE, activities |-> body, threw |-> r.threw]
    /\ UNCHANGED <<emailInput, requests, alerts>>

-----------------------------------------------------------------------------
(* The page *)

Next ==
    \/ \E e \in Emails : TypeEmail(e)
    \/ \E n \in ActivityNames : SignUp(n)
    \/ \E i \in 1..Len(calls) : SignUpFetchRejected(i)
    \/ \E i \in 1..Len(calls), ok \in BOOLEAN : SignUpFetchResolved(i, ok)
    \/ \E i \in 1..Len(calls), body \in SignUpBodies : SignUpJsonSettled(i, body)
    \/ \E i \in 1..Len(calls) : LoadFetchRejected(i)
    \/ \E i \in 1..Len(calls), ok \in BOOLEAN : LoadFetchResolved(i, ok)
    \/ \E i \in 1..Len(calls), body \in LoadBodies : LoadJsonSettled(i, body)

Spec == Init /\ [][Next]_vars

-----------------------------------------------------------------------------
(* displayActivities on its own, over every mapping of the bounded data model *)

\* A roster of n distinct emails
Roster(n) == [k \in 1..n |-> <<<<"a", "b", "x", "C", "A", "V">>[k], "@", "x">>]

RenderDetails ==
    { Details(p, c) :
        p \in {Absent} \cup {Some(Roster(n)) : n \in 0..MaxParticipants},
        c \in {Absent} \cup {Some(n) : n \in 0..MaxParticipants} }

RenderInputs ==
    {NullBody}
    \cup {ObjectBody(<<>>, Absent, Absent)}
    \cup {ObjectBody(<<Entry(n, d)>>, Absent, Absent) : n \in ActivityNames, d \in RenderDetails}
    \cup {ObjectBody(<<Entry(Chess, d), Entry(AV, e)>>, Absent, Absent) :
            d \in RenderDetails, e \in RenderDetails}

RenderInit ==
    /\ emailInput = <<>>
    /\ container \in {InitialContainer, ErrorContainer}
    /\ calls = <<>>
    /\ requests = <<>>
    /\ alerts = <<>>
    /\ uncaught = {}
    /\ completed = <<>>
    /\ lastDisplay = NoDisplay

DisplayActivities(activities) ==
    LET r == displayActivities(container, activities, 0)
    IN /\ container' = r.container
       /\ lastDisplay' = [called |-> TRUE, activities |-> activities, threw |-> r.threw]
       /\ UNCHANGED <<emailInput, calls, requests, alerts, uncaught, completed>>

RenderNext == \E activities \in RenderInputs : DisplayActivities(activities)

RenderSpec == RenderInit /\ [][RenderNext]_vars

-----------------------------------------------------------------------------
(* What the server reads out of a request URL *)

RECURSIVE Split(_, _)
Split(s, ch) ==
    IF ~Includes(s, ch) THEN <<s>>
    ELSE LET k == CHOOSE i \in 1..Len(s) : s[i] = ch /\ \A j \in 1..(i - 1) : s[j] # ch
         IN <<SubSeq(s, 1, k - 1)>> \o Split(SubSeq(s, k + 1, Len(s)), ch)

Unescape(hi, lo) ==
    CASE hi = "2" /\ lo = "0" -> " "
      [] hi = "4" /\ lo = "0" -> "@"
      [] hi = "2" /\ lo = "F" -> "/"
      [] hi = "2" /\ lo = "6" -> "&"
      [] hi = "2" /\ lo = "5" -> "%"
      [] OTHER -> "?"

RECURSIVE PercentDecode(_)
PercentDecode(s) ==
    IF s = <<>> THEN <<>>
    ELSE IF Head(s) = "%" /\ Len(s) >= 3
         THEN <<Unescape(s[2], s[3])>> \o PercentDecode(SubSeq(s, 4, Len(s)))
         ELSE <<Head(s)>> \o PercentDecode(Tail(s))

EmailKey == <<"e", "m", "a", "i", "l", "=">>

\* The request is a sign-up of email for the activity name
AddressedTo(url, name, email) ==
    LET parts == Split(url, "?")
        segments == Split(parts[1], "/")
    IN /\ Len(parts) = 2
       /\ Len(segments) = 4
       /\ segments[1] = <<>>
       /\ segments[2] = <<"a", "c", "t", "i", "v", "i", "t", "i", "e", "s">>
       /\ PercentDecode(segments[3]) = name
       /\ segments[4] = <<"s", "i", "g", "n", "u", "p">>
       /\ Len(Split(parts[2], "&")) = 1
       /\ Len(parts[2]) >= Len(EmailKey)
       /\ SubSeq(parts[2], 1, Len(EmailKey)) = EmailKey
       /\ PercentDecode(SubSeq(parts[2], Len(EmailKey) + 1, Len(parts[2]))) = email

-----------------------------------------------------------------------------
(* Vocabulary of the properties *)

SignUps == {i \in 1..Len(calls) : calls[i].fn = "signUp"}
Loads == {i \in 1..Len(calls) : calls[i].fn = "loadActivities"}

RequestsBy(i) == {k \in 1..Len(requests) : requests[k].by = i}
AlertsBy(i) == {k \in 1..Len(alerts) : alerts[k].by = i}
ReloadsOf(i) == {j \in Loads : calls[j].trigger = i}

AllSpaces(s) == \A k \in 1..Len(s) : s[k] = " "

\* The email field held nothing but spaces, or no @
BadEmail(typed) == AllSpaces(typed) \/ ~Includes(typed, "@")

\* What is left of the field once the spaces around it are dropped
IsTrimOf(email, typed) ==
    /\ email # <<>> => Head(email) # " " /\ email[Len(email)] # " "
    /\ \E a, b \in 0..Len(typed) :
          /\ a + Len(email) + b = Len(typed)
          /\ \A k \in 1..Len(typed) :
                typed[k] = IF k <= a \/ k > a + Len(email) THEN " " ELSE email[k - a]

Answered(i) == calls[i].pc = "done" /\ calls[i].response.settled
IsJson(body) == body.kind \in {"object", "null"}

-----------------------------------------------------------------------------
(* C1: a signUp call whose email field is empty after trimming, or has no @, *)
(* issues no request: no sign-up POST and no reload GET.                     *)
C1_InvalidEmailIssuesNoRequest ==
    \A i \in SignUps :
        BadEmail(calls[i].typed) =>
            /\ RequestsBy(i) = {}
            /\ ReloadsOf(i) = {}
            /\ calls[i].pc = "done"

C1_Witness ==
    /\ \E i \in SignUps : AllSpaces(calls[i].typed) /\ calls[i].typed # <<>>
    /\ \E i \in SignUps : ~AllSpaces(calls[i].typed) /\ ~Includes(calls[i].typed, "@")

-----------------------------------------------------------------------------
\* Exactly one POST by call i, addressed to its activity name and trimmed email
OnePost(i) ==
    /\ Cardinality(RequestsBy(i)) = 1
    /\ \A k \in RequestsBy(i) :
          /\ requests[k].method = "POST"
          /\ \E email \in {calls[i].email} :
                /\ IsTrimOf(email, calls[i].typed)
                /\ AddressedTo(requests[k].url, calls[i].activityName, email)

\* Exactly one reload by call i, started after the alert of call i was shown
OneReloadAfterAlert(i) ==
    /\ Cardinality(ReloadsOf(i)) = 1
    /\ Cardinality(AlertsBy(i)) = 1
    /\ \A j \in ReloadsOf(i) :
          /\ Cardinality(RequestsBy(j)) = 1
          /\ \A k \in RequestsBy(j), a \in AlertsBy(i) :
                requests[k].method = "GET" /\ requests[k].seen >= a

(* C2 as stated: a signUp call with a valid email issues exactly one POST to  *)
(* the encoded activity name and trimmed email, and a 2xx response with a JSON *)
(* body starts exactly one reload, after the confirmation was shown.           *)
C2_Original ==
    \A i \in SignUps :
        ~BadEmail(calls[i].typed) =>
            /\ OnePost(i)
            /\ (Answered(i) /\ calls[i].response.ok /\ IsJson(calls[i].response.body))
                  => OneReloadAfterAlert(i)

(* C2 amended: the same, for a 2xx response whose JSON body is not null (on    *)
(* null, reading result.message throws and the catch shows the generic error). *)
C2_OnePostAndOneReload ==
    \A i \in SignUps :
        ~BadEmail(calls[i].typed) =>
            /\ OnePost(i)
            /\ (Answered(i) /\ calls[i].response.ok /\ calls[i].response.body.kind = "object")
                  => /\ OneReloadAfterAlert(i)
                     /\ \A a \in AlertsBy(i) : alerts[a].text = Str(calls[i].response.body.message)

C2_Witness ==
    \E i \in SignUps :
        /\ calls[i].typed # calls[i].email
        /\ Includes(calls[i].activityName, "/")
        /\ Answered(i) /\ calls[i].response.ok
        /\ calls[i].response.body.kind = "object"
        /\ ReloadsOf(i) # {}

-----------------------------------------------------------------------------
\* The sign-up POST of call i got a non-2xx response whose JSON carries a detail
Refused(i) ==
    /\ Answered(i)
    /\ ~calls[i].response.ok
    /\ calls[i].response.body.kind = "object"
    /\ Present(calls[i].response.body.detail)

(* C3 as stated: on a non-2xx response with a detail, the message shown is the *)
(* detail itself, nothing added and nothing removed.                           *)
C3_Original ==
    \A i \in SignUps :
        Refused(i) =>
            /\ Cardinality(AlertsBy(i)) = 1
            /\ \A a \in AlertsBy(i) : alerts[a].text = Value(calls[i].response.body.detail)

(* C3 amended: the message shown is "Error: " followed by the detail, verbatim. *)
C3_ErrorPrefixThenDetail ==
    \A i \in SignUps :
        Refused(i) =>
            /\ Cardinality(AlertsBy(i)) = 1
            /\ \A a \in AlertsBy(i) :
                  /\ Len(alerts[a].text) = Len(Value(calls[i].response.body.detail)) + 1
                  /\ Head(alerts[a].text) = "Error: "
                  /\ Tail(alerts[a].text) = Value(calls[i].response.body.detail)

C3_Witness == \E i \in SignUps : Refused(i) /\ AlertsBy(i) # {}

-----------------------------------------------------------------------------
\* In this step signUp call i starts, resumes or finishes
SignUpRuns(i) ==
    /\ i \in 1..Len(calls')
    /\ calls'[i].fn = "signUp"
    /\ (i > Len(calls) \/ calls'[i] # calls[i])

\* In this step call i starts a reload: a loadActivities call and its GET
StartsReload(i) ==
    \/ \E j \in (Len(calls) + 1)..Len(calls') : calls'[j].trigger = i
    \/ \E k \in (Len(requests) + 1)..Len(requests') :
          requests'[k].method = "GET" /\ calls'[requests'[k].by].trigger = i

(* C4: a signUp call starts a reload only on a 2xx response with a parseable   *)
(* JSON body; on a non-2xx response, a network failure or a 2xx body that is   *)
(* not JSON it issues no GET, and no step of signUp changes the container.     *)
C4_ReloadOnlyOnSuccess ==
    [][\A i \in 1..Len(calls') :
          SignUpRuns(i) =>
              /\ container' = container
              /\ StartsReload(i) =>
                    /\ calls'[i].response.settled
                    /\ calls'[i].response.ok
                    /\ IsJson(calls'[i].response.body)
                    /\ calls'[i].response.body.kind # "not-json"]_vars

C4_Witness ==
    \E i \in SignUps :
        /\ Answered(i) /\ calls[i].response.ok
        /\ calls[i].response.body.kind = "not-json"
        /\ ReloadsOf(i) = {}
        /\ container.cards # <<>>

-----------------------------------------------------------------------------
\* The load that finished last
LastCompleted == completed[Len(completed)]

\* The GET of load i was answered with a status outside 2xx, or a body not JSON
FailedResponse(i) ==
    /\ Answered(i)
    /\ (~calls[i].response.ok \/ calls[i].response.body.kind = "not-json")

(* C5: when the response to GET /activities is non-2xx or not JSON, the        *)
(* container becomes the static error message and nothing of that response is  *)
(* rendered as cards, a non-2xx response with a JSON body included.            *)
C5_NonOkLoadShowsError ==
    \A i \in Loads :
        (FailedResponse(i) /\ completed # <<>> /\ LastCompleted = i) =>
            /\ container = ErrorContainer
            /\ \A k \in 1..Len(container.cards) : container.cards[k].src # i

-----------------------------------------------------------------------------
\* a ?? b takes a whenever a is neither null nor undefined
Nullish(o) == ~Present(o)

\* current_participants ?? participants.length
ExpectedCount(details) ==
    IF ~Nullish(details.current_participants)
    THEN Value(details.current_participants)
    ELSE Len(Value(details.participants))

\* The last displayActivities call rendered every entry of its mapping
Rendered ==
    /\ lastDisplay.called
    /\ ~lastDisplay.threw
    /\ Len(container.cards) = Len(lastDisplay.activities.entries)

(* C6: the capacity line of every rendered activity shows current_participants *)
(* whenever that field is present (0 included) and participants.length only    *)
(* when it is absent, over max_participants.                                   *)
C6_CapacityUsesCurrentWhenPresent ==
    Rendered =>
        \A k \in 1..Len(container.cards) :
            LET details == lastDisplay.activities.entries[k].details
            IN /\ container.cards[k].count = ExpectedCount(details)
               /\ container.cards[k].max = details.max_participants

-----------------------------------------------------------------------------
\* Every entry of the mapping is an Activity of the data model: it has a roster
WellFormed(activities) ==
    /\ activities.kind = "object"
    /\ \A k \in 1..Len(activities.entries) :
          Present(activities.entries[k].details.participants)

(* C7: after any sequence of displayActivities calls the container holds       *)
(* exactly the cards of the mapping of the last call: N cards for N            *)
(* activities, one per name in the mapping's order, none from earlier renders. *)
C7_ContainerHoldsLastMapping ==
    (lastDisplay.called /\ WellFormed(lastDisplay.activities)) =>
        /\ ~lastDisplay.threw
        /\ container.html = ""
        /\ Len(container.cards) = Len(lastDisplay.activities.entries)
        /\ \A k \in 1..Len(container.cards) :
              LET e == lastDisplay.activities.entries[k]
                  c == container.cards[k]
              IN /\ c.name = e.name
                 /\ c.button = e.name
                 /\ c.description = e.details.description
                 /\ c.schedule = e.details.schedule
                 /\ c.participants.tag = "ul" <=> Len(Value(e.details.participants)) > 0
                 /\ c.participants.tag = "ul" => c.participants.items = Value(e.details.participants)

C7_Witness ==
    /\ lastDisplay.called
    /\ WellFormed(lastDisplay.activities)
    /\ Len(container.cards) = 2
    /\ container.cards[1].participants.tag = "p"
    /\ container.cards[2].participants.tag = "ul"

-----------------------------------------------------------------------------
(* C8: no error is fatal: no loadActivities or signUp call lets an exception   *)
(* escape and none retries, whatever the outcome of its request (rejection,    *)
(* body that is not JSON, non-2xx, mapping that cannot be rendered); a call    *)
(* whose response is in has run to its end.                                    *)
C8_NoErrorEscapesNoRetry ==
    /\ uncaught = {}
    /\ \A i \in 1..Len(calls) :
          /\ Cardinality(RequestsBy(i)) <= 1
          /\ calls[i].response.body.kind # "none" => calls[i].pc = "done"
          /\ calls[i].pc \in {"fetch", "json", "done"}
    /\ \A i \in Loads : calls[i].pc = "done" <=> \E k \in 1..Len(completed) : completed[k] = i

C8_Witness ==
    /\ lastDisplay.called /\ lastDisplay.threw
    /\ lastDisplay.activities.kind = "object"
    /\ container = ErrorContainer
    /\ \E i \in SignUps : calls[i].pc = "done" /\ RequestsBy(i) # {} /\ ~calls[i].response.settled

-----------------------------------------------------------------------------
\* The body can be rendered to the end
Renderable(body) ==
    /\ body.kind = "object"
    /\ \A k \in 1..Len(body.entries) : ~CardThrows(body.entries[k].details)

LoadSucceeded(i) ==
    Answered(i) /\ calls[i].response.ok /\ Renderable(calls[i].response.body)

SignUpSucceeded(i) ==
    Answered(i) /\ calls[i].response.ok /\ calls[i].response.body.kind = "object"

\* Nothing is in flight and every request was answered successfully
AllAnsweredSuccessfully ==
    /\ \A i \in 1..Len(calls) : calls[i].pc = "done"
    /\ \A i \in Loads : LoadSucceeded(i)
    /\ \A i \in SignUps : RequestsBy(i) # {} => SignUpSucceeded(i)

\* The GET of load j was issued after sign-up i had succeeded (its confirmation shown)
IssuedAfterSuccess(j, i) ==
    \E k \in RequestsBy(j), a \in AlertsBy(i) : requests[k].seen >= a

\* The container shows the list that load j rendered
Shows(j) ==
    /\ container.html = ""
    /\ container.cards # <<>>
    /\ \A k \in 1..Len(container.cards) : container.cards[k].src = j

\* The GET responses were processed in the order the GETs were issued
InIssueOrder ==
    \A a, b \in 1..Len(completed) : a < b => completed[a] < completed[b]

-----------------------------------------------------------------------------
\* The container holds the complete card set of the response to load i
CompleteCardSetOf(i) ==
    /\ calls[i].pc = "done"
    /\ calls[i].response.body.kind = "object"
    /\ container.html = ""
    /\ Len(container.cards) = Len(calls[i].response.body.entries)
    /\ \A k \in 1..Len(container.cards) :
          /\ container.cards[k].src = i
          /\ container.cards[k].name = calls[i].response.body.entries[k].name

(* C10: under every interleaving, between handlers the container is its        *)
(* initial content, the static error message alone, or the complete card set   *)
(* of exactly one GET /activities response: never cards of two responses,      *)
(* never a partly rendered mapping.                                            *)
C10_ContainerIsWhole ==
    \/ container = InitialContainer
    \/ container = ErrorContainer
    \/ \E i \in Loads : CompleteCardSetOf(i)

C10_Witness ==
    /\ \E i \in Loads : CompleteCardSetOf(i) /\ container.cards # <<>>
    /\ \E j \in Loads :
          /\ calls[j].pc = "done"
          /\ calls[j].response.body.kind = "object"
          /\ ~Renderable(calls[j].response.body)

=============================================================================
